---- MODULE Spec2Model ----
(***************************************************************************)
(* Model of the Alchemix user-earnings indexer: the four AlchemistV2 event *)
(* handlers (AddYieldToken, Deposit, Harvest, Donate) acting on the six    *)
(* tables of ponder.schema.ts.                                             *)
(*                                                                         *)
(* Handlers run one after the other, each to completion or to the first    *)
(* rejected await, so every handler is one action.  Its inputs are the     *)
(* event, the on-chain values its reads return, the order in which the     *)
(* depositor query returns its rows, and the await (if any) that rejects.  *)
(*                                                                         *)
(* JavaScript numbers are carried exactly, as n / (d * 10^e), together     *)
(* with the values NaN, Infinity and undefined; binary64 rounding and the  *)
(* narrowing to the 4-byte `real` columns are not modelled.                *)
(***************************************************************************)
EXTENDS Integers, Sequences, FiniteSets, TLC

\* ------------------------------------------------------------ bounds ----
MaxEvents == 3   \* events delivered in one behaviour
MaxAmount == 2   \* largest raw amount carried by an event

\* ---------------------------------------------------- program constants --
BPS               == 10000   \* divisor of the protocolFee read
DebtTokenDecimals == 18      \* exponent of the donation scaling

\* ------------------------------------------------------- input domains ---
Addresses    == {"a1", "a2"}
\* (yield token, network): y1 is listed on both networks, y2 on one
Markets      == {<<"y1", "mainnet">>, <<"y1", "arbitrum">>, <<"y2", "mainnet">>}
Credits      == {0}
BlockNumbers == {1}
ShareCounts  == 0..2       \* on-chain share counts
Decimals     == {0, 1}     \* yield-token decimals
ProtocolFees == {0, 1000}  \* on-chain protocolFee, in units of 1/10000

\* the awaits of the two handlers that can reject for a reason outside the
\* store's contents ("none": no await rejects)
Faults == {"none", "select", "getYieldTokenParameters", "protocolFee",
           "multicall", "insertShares", "update"}

\* An environment fixes the domains the inputs of the handlers are drawn
\* from.  StoreEnv varies the markets and the deposited amounts, FaultEnv the
\* await that rejects, CalcEnv the on-chain values the share calculation
\* reads.
StoreEnv == [markets |-> Markets, depositAmounts |-> 1..MaxAmount,
             eventAmounts |-> {1}, shares |-> 0..1, decimals |-> {0},
             fees |-> {1000}, faults |-> {"none"}]
FaultEnv == [markets |-> {<<"y1", "mainnet">>}, depositAmounts |-> {1},
             eventAmounts |-> {1}, shares |-> 0..1, decimals |-> {0},
             fees |-> {1000}, faults |-> Faults]
CalcEnv  == [markets |-> {<<"y1", "mainnet">>}, depositAmounts |-> {1},
             eventAmounts |-> {MaxAmount}, shares |-> ShareCounts,
             decimals |-> Decimals, fees |-> ProtocolFees,
             faults |-> {"none"}]

\* ------------------------------------------------- JavaScript numbers ----
RECURSIVE GCD(_, _)
GCD(a, b) == IF b = 0 THEN a ELSE GCD(b, a % b)

Abs(x) == IF x < 0 THEN -x ELSE x

RECURSIVE Pow(_, _)
Pow(b, k) == IF k = 0 THEN 1 ELSE b * Pow(b, k - 1)

\* how often the prime p divides x (x > 0)
RECURSIVE Val(_, _)
Val(p, x) == IF x % p = 0 THEN 1 + Val(p, x \div p) ELSE 0

Max2(a, b) == IF a >= b THEN a ELSE b

NaN       == [k |-> "nan",   n |-> 0, d |-> 0, e |-> 0]
Infinity  == [k |-> "inf",   n |-> 1, d |-> 0, e |-> 0]
NegInfinity == [k |-> "inf", n |-> -1, d |-> 0, e |-> 0]
Undefined == [k |-> "undef", n |-> 0, d |-> 0, e |-> 0]
Zero      == [k |-> "fin",   n |-> 0, d |-> 1, e |-> 0]

\* the finite number n / (d * 10^e), d > 0, in its unique reduced form:
\* gcd(n, d) = 1, d coprime to 10, n not a multiple of 10
RECURSIVE StripTens(_, _)
StripTens(n, e) ==
  IF n % 10 = 0 THEN StripTens(n \div 10, e - 1)
  ELSE [k |-> "fin", n |-> n, d |-> 1, e |-> e]

Fin(n, d, e) ==
  IF n = 0 THEN Zero
  ELSE LET g  == GCD(Abs(n), d)
           n1 == n \div g
           d1 == d \div g
           a  == Val(2, d1)
           b  == Val(5, d1)
           m  == Max2(a, b)
           n2 == n1 * Pow(2, m - a) * Pow(5, m - b)
           d2 == d1 \div (Pow(2, a) * Pow(5, b))
           s  == StripTens(Abs(n2), e + m)
       IN [k |-> "fin", n |-> (IF n2 < 0 THEN -s.n ELSE s.n), d |-> d2, e |-> s.e]

IsFinite(x) == x.k = "fin"

\* Number(value: bigint)
Number(v) == Fin(v, 1, 0)

\* 10 ** k
TenPow(k) == [k |-> "fin", n |-> 1, d |-> 1, e |-> -k]

Sign(x) == IF x.n > 0 THEN 1 ELSE IF x.n < 0 THEN -1 ELSE 0

Inf(s) == IF s >= 0 THEN Infinity ELSE NegInfinity

\* x - y on numbers (only used on finite operands)
JsNeg(x) == IF x.k = "fin" THEN [x EXCEPT !.n = -x.n]
            ELSE IF x.k = "inf" THEN Inf(-x.n) ELSE x

\* x + y : undefined coerces to NaN
JsAdd(x, y) ==
  IF x.k \in {"undef", "nan"} \/ y.k \in {"undef", "nan"} THEN NaN
  ELSE IF x.k = "inf" /\ y.k = "inf" THEN (IF x.n = y.n THEN x ELSE NaN)
  ELSE IF x.k = "inf" THEN x
  ELSE IF y.k = "inf" THEN y
  ELSE IF x.n = 0 THEN y
  ELSE IF y.n = 0 THEN x
  ELSE LET m == Max2(x.e, y.e)
           a == x.n * Pow(10, m - x.e)
           b == y.n * Pow(10, m - y.e)
       IN Fin(a * y.d + b * x.d, x.d * y.d, m)

JsSub(x, y) == JsAdd(x, JsNeg(y))

\* x * y
JsMul(x, y) ==
  IF x.k \in {"undef", "nan"} \/ y.k \in {"undef", "nan"} THEN NaN
  ELSE IF x.k = "inf" \/ y.k = "inf"
       THEN (IF Sign(x) * Sign(y) = 0 THEN NaN ELSE Inf(Sign(x) * Sign(y)))
  ELSE Fin(x.n * y.n, x.d * y.d, x.e + y.e)

\* x / y : a finite value over zero is Infinity, zero over zero is NaN
JsDiv(x, y) ==
  IF x.k \in {"undef", "nan"} \/ y.k \in {"undef", "nan"} THEN NaN
  ELSE IF x.k = "inf" THEN (IF y.k = "inf" THEN NaN
                            ELSE Inf(x.n * (IF y.n < 0 THEN -1 ELSE 1)))
  ELSE IF y.k = "inf" THEN Zero
  ELSE IF y.n = 0 THEN (IF x.n = 0 THEN NaN ELSE Inf(x.n))
  ELSE Fin(x.n * y.d * Sign(y), x.d * Abs(y.n), x.e - y.e)

\* x < y, false whenever an operand is NaN
JsLess(x, y) ==
  IF x.k \in {"undef", "nan"} \/ y.k \in {"undef", "nan"} THEN FALSE
  ELSE IF x.k = "inf" THEN x.n < 0 /\ y # x
  ELSE IF y.k = "inf" THEN y.n > 0
  ELSE IF Sign(x) # Sign(y) THEN Sign(x) < Sign(y)
  ELSE IF x.n = 0 THEN FALSE
  ELSE LET m == Max2(x.e, y.e)
       IN x.n * Pow(10, m - x.e) * y.d < y.n * Pow(10, m - y.e) * x.d

\* ---------------------------------------------------------- the store ---
VARIABLES
  yieldTokens,        \* table yield_token
  depositors,         \* table depositor
  harvestEvent,       \* table harvest_event
  userHarvestShares,  \* table user_harvest_share
  donateEvent,        \* table donate_event
  userDonateShares,   \* table user_donate_share
  uuid,               \* number of identifiers uuidv4() has handed out
  nEvents,            \* number of events delivered so far
  last                \* the last handler invocation: event, reads, outcome

store == <<yieldTokens, depositors, harvestEvent, userHarvestShares,
           donateEvent, userDonateShares>>
vars  == <<yieldTokens, depositors, harvestEvent, userHarvestShares,
           donateEvent, userDonateShares, uuid, nEvents, last>>

\* primary keys of ponder.schema.ts: the columns that make up the key
yieldTokensPk == {"yieldToken"}
depositorsPk  == {"depositor", "depositedYieldToken", "network"}
eventPk       == {"id"}

\* the key of a depositor row
depositorKey(r) == <<r.depositor, r.depositedYieldToken, r.network>>

\* the rows of a table whose primary key is that of `row`
Conflicting(table, pk, row) == {r \in table : \A c \in pk : r[c] = row[c]}

\* insert(table).values(row) : rejects on a primary-key conflict
InsertRejects(table, pk, row) == Conflicting(table, pk, row) # {}

\* a duplicate event row is taken as new
insertEventNeverRejects(table, row) == FALSE

\* insert(harvestEvent).values(row), insert(donateEvent).values(row)
insertEventRejects(table, row) == InsertRejects(table, eventPk, row)

\* insert(table).values(row).onConflictDoNothing()
InsertOrIgnore(table, pk, row) ==
  IF Conflicting(table, pk, row) # {} THEN table ELSE table \cup {row}

\* a property of a JavaScript row object
Prop(row, name) == IF name \in DOMAIN row THEN row[name] ELSE Undefined

\* the row after update(...).set(patch): only columns of the table are
\* stored, a key of the patch that names no column is dropped
Merge(row, patch) ==
  [c \in DOMAIN row |-> IF c \in DOMAIN patch THEN patch[c] ELSE row[c]]

\* the two `real` columns are declared without a default and stay unset
NewDepositorNoDefault(sender, yieldToken, amount, network) ==
  [depositor |-> sender, depositedYieldToken |-> yieldToken,
   network |-> network, yieldTokenAmount |-> amount,
   totalUnderlyingTokenEarned |-> Undefined,
   totalDonationsReceived |-> Undefined]

\* the row inserted for a first deposit; the two `real` columns take their
\* declared default(0)
NewDepositor(sender, yieldToken, amount, network) ==
  [depositor |-> sender, depositedYieldToken |-> yieldToken,
   network |-> network, yieldTokenAmount |-> amount,
   totalUnderlyingTokenEarned |-> Zero, totalDonationsReceived |-> Zero]

\* ------------------------------------------------------------ events ----
Event(kind, id, yieldToken, network, sender, amount, credit, blockNumber) ==
  [kind |-> kind, id |-> id, yieldToken |-> yieldToken, network |-> network,
   sender |-> sender, amount |-> amount, credit |-> credit,
   blockNumber |-> blockNumber]

NoEvent == Event("none", 0, "", "", "", 0, 0, 0)

\* on-chain values a handler reads at the event's block
Chain(totalShares, decimals, fee, positions) ==
  [totalShares |-> totalShares, decimals |-> decimals, protocolFee |-> fee,
   positions |-> positions]

NoChain == Chain(0, 0, 0, <<>>)

Invocation(ev, outcome, failedAt, list, chain, reads) ==
  [event |-> ev, outcome |-> outcome, failedAt |-> failedAt,
   depositorsList |-> list, chain |-> chain, reads |-> reads]

Init ==
  /\ yieldTokens = {}
  /\ depositors = {}
  /\ harvestEvent = {}
  /\ userHarvestShares = {}
  /\ donateEvent = {}
  /\ userDonateShares = {}
  /\ uuid = 0
  /\ nEvents = 0
  /\ last = Invocation(NoEvent, "ok", "none", <<>>, NoChain, {})

\* the identifier of the log delivered next: logs are numbered in delivery
\* order
NewLogId == nEvents + 1

\* ponder.on("AlchemistV2:AddYieldToken")
AddYieldToken(E) ==
  /\ nEvents < MaxEvents
  /\ \E market \in E.markets :
       LET yieldToken == market[1]
           network    == market[2]
       IN /\ yieldTokens' = InsertOrIgnore(yieldTokens, yieldTokensPk,
                              [yieldToken |-> yieldToken, network |-> network])
          /\ last' = Invocation(
                       Event("AddYieldToken", NewLogId, yieldToken, network,
                             "", 0, 0, 0),
                       "ok", "none", <<>>, NoChain, {})
  /\ nEvents' = nEvents + 1
  /\ UNCHANGED <<depositors, harvestEvent, userHarvestShares, donateEvent,
                 userDonateShares, uuid>>

\* the conflicting row takes the new amount instead of adding it
DepositUpsertOverwrites(table, row, amount) ==
  IF Conflicting(table, depositorsPk, row) = {}
  THEN table \cup {row}
  ELSE {IF r \in Conflicting(table, depositorsPk, row)
        THEN Merge(r, [yieldTokenAmount |-> amount])
        ELSE r : r \in table}

\* the conflicting row is replaced by the inserted row with the summed amount
DepositUpsertResets(table, row, amount) ==
  IF Conflicting(table, depositorsPk, row) = {}
  THEN table \cup {row}
  ELSE {IF r \in Conflicting(table, depositorsPk, row)
        THEN Merge(row, [yieldTokenAmount |-> r.yieldTokenAmount + amount])
        ELSE r : r \in table}

\* insert(depositors).values(row).onConflictDoUpdate(...)
DepositUpsert(table, row, amount) ==
  IF Conflicting(table, depositorsPk, row) = {}
  THEN table \cup {row}
  ELSE {IF r \in Conflicting(table, depositorsPk, row)
        THEN Merge(r, [yieldTokenAmount |-> r.yieldTokenAmount + amount])
        ELSE r : r \in table}

\* ponder.on("AlchemistV2:Deposit")
Deposit(E) ==
  /\ nEvents < MaxEvents
  /\ \E sender \in Addresses, market \in E.markets, amount \in E.depositAmounts :
       LET yieldToken == market[1]
           network    == market[2]
       IN /\ depositors' = DepositUpsert(depositors,
                             NewDepositor(sender, yieldToken, amount, network),
                             amount)
          /\ last' = Invocation(
                       Event("Deposit", NewLogId, yieldToken, network, sender,
                             amount, 0, 0),
                       "ok", "none", <<>>, NoChain, {})
  /\ nEvents' = nEvents + 1
  /\ UNCHANGED <<yieldTokens, harvestEvent, userHarvestShares, donateEvent,
                 userDonateShares, uuid>>

\* ------------------------------------------- Harvest and Donate: parts ---
\* the awaits of the two handlers, in program order
HarvestSteps == <<"insertEvent", "select", "getYieldTokenParameters",
                  "protocolFee", "multicall", "insertShares", "update">>
DonateSteps  == <<"insertEvent", "select", "getYieldTokenParameters",
                  "multicall", "insertShares", "update">>

\* the contract reads among the awaits
Reads == {"getYieldTokenParameters", "protocolFee", "multicall"}

Range(f) == {f[i] : i \in DOMAIN f}

\* the rejection is swallowed and the handler runs on
CompletedDespiteFault(steps, fault) == Range(steps)

\* the awaits that have completed when the await `fault` rejects
Completed(steps, fault) ==
  IF fault = "none" THEN Range(steps)
  ELSE {steps[i] : i \in {j \in DOMAIN steps :
                            \E m \in DOMAIN steps : steps[m] = fault /\ j < m}}

\* sequences without repetition over the set S, of every length up to |S|
Arrangements(S) ==
  {q \in UNION {[1..m -> S] : m \in 0..Cardinality(S)} :
     \A i, j \in DOMAIN q : i # j => q[i] # q[j]}

Orderings(S) == {q \in Arrangements(S) : Len(q) = Cardinality(S)}

\* the where clause compares the yield token only
SelectIgnoresNetwork(table, yieldToken, network) ==
  LET found == {r.depositor : r \in {x \in table :
                   x.depositedYieldToken = yieldToken}}
  IN {[i \in DOMAIN q |-> [depositor |-> q[i]]] : q \in Orderings(found)}

\* db.sql.select({depositor}).from(depositors).where(and(eq(..), eq(..))):
\* the matching rows, in an order the query does not fix
Select(table, yieldToken, network) ==
  LET found == {r.depositor : r \in {x \in table :
                   /\ x.depositedYieldToken = yieldToken
                   /\ x.network = network}}
  IN {[i \in DOMAIN q |-> [depositor |-> q[i]]] : q \in Orderings(found)}

RECURSIVE SumOver(_, _)
SumOver(f, S) ==
  IF S = {} THEN 0
  ELSE LET x == CHOOSE y \in S : TRUE IN f[x] + SumOver(f, S \ {x})

\* the on-chain states a handler can read for the listed addresses: the
\* positions of a yield token never add up to more than its totalShares.
\* With no address listed nothing that is read reaches the store, and one
\* on-chain state stands for all of them.
Chains(shares, decimals, fees, listed) ==
  IF listed = {} THEN {NoChain}
  ELSE {c \in [totalShares : shares, decimals : decimals,
               protocolFee : fees, positions : [listed -> shares]] :
          SumOver(c.positions, listed) <= c.totalShares}

preparePositionCalls(depositorAddrs, yieldToken) ==
  [i \in DOMAIN depositorAddrs |->
     [functionName |-> "positions", args |-> <<depositorAddrs[i], yieldToken>>]]

\* client.multicall({contracts: calls, allowFailure: false}): one result per
\* call, in call order; a result is (shares, lastAccruedWeight)
multicall(calls, chain) ==
  [i \in DOMAIN calls |-> <<chain.positions[calls[i].args[1]], 0>>]

\* the fee is taken as a percentage
protocolFeePercent(value) == JsDiv(Number(value), Fin(100, 1, 0))

\* Number(value) / divisor, with divisor 10000
protocolFee(value) == JsDiv(Number(value), Fin(BPS, 1, 0))

userEarnings(totalHarvested, fee, shares, totalAlchemistShares, yieldTokenDecimals) ==
  JsDiv(JsDiv(JsMul(JsMul(Number(totalHarvested), JsSub(Fin(1, 1, 0), fee)),
                    Number(shares)),
              Number(totalAlchemistShares)),
        TenPow(yieldTokenDecimals))

donationReceived(debtTokensBurned, shares, totalAlchemistShares) ==
  JsDiv(JsDiv(JsMul(Number(debtTokensBurned), Number(shares)),
              Number(totalAlchemistShares)),
        TenPow(DebtTokenDecimals))

\* the row's own identifier is stored as its harvestId
harvestSharesDataOwnId(ev, depositorsList, results, chain, firstId) ==
  [index \in DOMAIN results |->
     [id |-> firstId + index,
      depositor |-> depositorsList[index].depositor,
      yieldToken |-> ev.yieldToken,
      harvestId |-> firstId + index,
      shares |-> results[index][1],
      totalAlchemistShares |-> chain.totalShares,
      userEarnings |-> userEarnings(ev.amount, protocolFee(chain.protocolFee),
                                    results[index][1], chain.totalShares,
                                    chain.decimals),
      blockNumber |-> ev.blockNumber,
      network |-> ev.network]]

\* the results are attributed to the depositors in reverse list order
harvestSharesDataReversed(ev, depositorsList, results, chain, firstId) ==
  [index \in DOMAIN results |->
     [id |-> firstId + index,
      depositor |-> depositorsList[Len(results) + 1 - index].depositor,
      yieldToken |-> ev.yieldToken,
      harvestId |-> ev.id,
      shares |-> results[index][1],
      totalAlchemistShares |-> chain.totalShares,
      userEarnings |-> userEarnings(ev.amount, protocolFee(chain.protocolFee),
                                    results[index][1], chain.totalShares,
                                    chain.decimals),
      blockNumber |-> ev.blockNumber,
      network |-> ev.network]]

\* sharesData of handleHarvest; uuidv4() hands out fresh identifiers
harvestSharesData(ev, depositorsList, results, chain, firstId) ==
  [index \in DOMAIN results |->
     [id |-> firstId + index,
      depositor |-> depositorsList[index].depositor,
      yieldToken |-> ev.yieldToken,
      harvestId |-> ev.id,
      shares |-> results[index][1],
      totalAlchemistShares |-> chain.totalShares,
      userEarnings |-> userEarnings(ev.amount, protocolFee(chain.protocolFee),
                                    results[index][1], chain.totalShares,
                                    chain.decimals),
      blockNumber |-> ev.blockNumber,
      network |-> ev.network]]

\* the donation is scaled by the yield token's decimals, as a harvest is
donateSharesDataTokenDecimals(ev, depositorsList, results, chain, firstId) ==
  [index \in DOMAIN results |->
     [id |-> firstId + index,
      depositor |-> depositorsList[index].depositor,
      yieldToken |-> ev.yieldToken,
      donateId |-> ev.id,
      shares |-> results[index][1],
      totalAlchemistShares |-> chain.totalShares,
      donationReceived |->
        JsDiv(JsDiv(JsMul(Number(ev.amount), Number(results[index][1])),
                    Number(chain.totalShares)),
              TenPow(chain.decimals)),
      blockNumber |-> ev.blockNumber,
      network |-> ev.network]]

\* sharesData of handleDonate
donateSharesData(ev, depositorsList, results, chain, firstId) ==
  [index \in DOMAIN results |->
     [id |-> firstId + index,
      depositor |-> depositorsList[index].depositor,
      yieldToken |-> ev.yieldToken,
      donateId |-> ev.id,
      shares |-> results[index][1],
      totalAlchemistShares |-> chain.totalShares,
      donationReceived |-> donationReceived(ev.amount, results[index][1],
                                            chain.totalShares),
      blockNumber |-> ev.blockNumber,
      network |-> ev.network]]

\* the earnings replace the running total
harvestSetOverwrites(row, share) ==
  [totalUnderlyingTokenEarned |-> share.userEarnings]

\* the earnings are taken off the running total
harvestSetSubtracts(row, share) ==
  [totalUnderlyingTokenEarned |->
     JsSub(Prop(row, "totalUnderlyingTokenEarned"), share.userEarnings)]

\* the callbacks given to .set(...)
harvestSet(row, share) ==
  [totalUnderlyingTokenEarned |->
     JsAdd(Prop(row, "totalUnderlyingTokenEarned"), share.userEarnings)]

donateSet(row, share) ==
  [totalDonationReceived |->
     JsAdd(Prop(row, "totalDonationReceived"), share.donationReceived)]

\* the update is keyed by the depositor's address alone
updateDepositorByAddress(table, seen, share, kind) ==
  {IF r.depositor = share.depositor
   THEN LET row == CHOOSE x \in seen : depositorKey(x) = depositorKey(r)
        IN Merge(r, IF kind = "Harvest" THEN harvestSet(row, share)
                    ELSE donateSet(row, share))
   ELSE r : r \in table}

\* update(depositors, {depositor, depositedYieldToken, network}).set(cb):
\* the row of the share's key is read from the table as the update sees it
\* (seen), cb is applied to the row read, and the result is merged into the
\* row of the table as it is when the update completes (table)
updateDepositor(table, seen, share, kind) ==
  {IF depositorKey(r) = <<share.depositor, share.yieldToken, share.network>>
   THEN LET row == CHOOSE x \in seen : depositorKey(x) = depositorKey(r)
        IN Merge(r, IF kind = "Harvest" THEN harvestSet(row, share)
                    ELSE donateSet(row, share))
   ELSE r : r \in table}

\* the updates of updatePromises that complete, in their completion order;
\* tables[j + 1] is the table after j of them have completed, and the update
\* of share i reads its row after readsAt[i] of them have
RECURSIVE runUpdates(_, _, _, _, _)
runUpdates(tables, sharesData, order, readsAt, kind) ==
  IF Len(tables) > Len(order) THEN tables[Len(tables)]
  ELSE LET i == order[Len(tables)]
       IN runUpdates(Append(tables,
                       updateDepositor(tables[Len(tables)],
                                       tables[readsAt[i] + 1],
                                       sharesData[i], kind)),
                     sharesData, order, readsAt, kind)

\* when the updates read their rows: all of them are issued before any
\* completes, and each reads its row before it completes
ReadPoints(n, order) ==
  {f \in [1..n -> 0..n] :
     /\ \A p \in DOMAIN order : f[order[p]] < p
     /\ \A i \in (1..n) \ Range(order) : f[i] = 0}

\* the completion orders of the n updates: all of them complete when no
\* await rejects, not all of them when one of the updates rejects
CompletionOrders(n, fault) ==
  IF fault = "none" THEN Orderings(1..n)
  ELSE IF fault = "update" THEN {q \in Arrangements(1..n) : Len(q) < n}
  ELSE {<<>>}

\* a new share row takes the place of the depositor's earlier one
insertSharesPerDepositor(table, rows) ==
  {r \in table : \A n \in rows :
     <<r.depositor, r.yieldToken, r.network>>
       # <<n.depositor, n.yieldToken, n.network>>} \cup rows

\* insert(userHarvestShares).values(rows), insert(userDonateShares).values(rows):
\* the rows carry fresh identifiers and are added to the table
insertShares(table, rows) == table \cup rows

\* the rows of sharesData stored by insert(...).values(sharesData)
InsertedShares(sharesData, steps, fault) ==
  IF "insertShares" \in Completed(steps, fault) THEN Range(sharesData) ELSE {}

\* ------------------------------------------------ Harvest and Donate ----
Addrs(depositorsList) == [i \in DOMAIN depositorsList |-> depositorsList[i].depositor]

\* the event a stored harvest_event / donate_event row was written for
HarvestEventOf(row) ==
  Event("Harvest", row.id, row.yieldToken, row.network, "", row.totalHarvested,
        row.credit, row.blockNumber)
DonateEventOf(row) ==
  Event("Donate", row.id, row.yieldToken, row.network, "", row.debtTokensBurned,
        0, row.blockNumber)

\* the Harvest events that can be delivered: a new log, or a log that has
\* been processed before, delivered again
HarvestEvents(E) ==
  {Event("Harvest", NewLogId, m[1], m[2], "", h, c, b) :
     m \in E.markets, h \in E.eventAmounts, c \in Credits, b \in BlockNumbers}
  \cup {HarvestEventOf(row) : row \in harvestEvent}

DonateEvents(E) ==
  {Event("Donate", NewLogId, m[1], m[2], "", h, 0, b) :
     m \in E.markets, h \in E.eventAmounts, b \in BlockNumbers}
  \cup {DonateEventOf(row) : row \in donateEvent}

\* ponder.on("AlchemistV2:Harvest"): the awaits run in program order; the
\* handler stops at the first one that rejects and nothing is undone
Harvest(E) ==
  /\ nEvents < MaxEvents
  /\ nEvents' = nEvents + 1
  /\ UNCHANGED <<yieldTokens, donateEvent, userDonateShares>>
  /\ \E ev \in HarvestEvents(E) :
       LET row == [id |-> ev.id, blockNumber |-> ev.blockNumber,
                   yieldToken |-> ev.yieldToken, totalHarvested |-> ev.amount,
                   credit |-> ev.credit, network |-> ev.network]
       IN IF insertEventRejects(harvestEvent, row)
          THEN /\ last' = Invocation(ev, "error", "insertEvent", <<>>, NoChain, {})
               /\ UNCHANGED <<harvestEvent, depositors, userHarvestShares, uuid>>
          ELSE
            \E fault \in E.faults \cap (Range(HarvestSteps) \cup {"none"}) :
            LET done == Completed(HarvestSteps, fault) IN
            \E depositorsList \in
                 (IF "select" \in done
                  THEN Select(depositors, ev.yieldToken, ev.network) ELSE {<<>>}) :
            \E chain \in
                 (IF "insertShares" \in done
                  THEN Chains(E.shares, E.decimals, E.fees, Range(Addrs(depositorsList)))
                  ELSE {NoChain}) :
            \E order \in CompletionOrders(Len(depositorsList), fault) :
            \E readsAt \in ReadPoints(Len(depositorsList), order) :
              LET calls      == preparePositionCalls(Addrs(depositorsList),
                                                     ev.yieldToken)
                  results    == IF "insertShares" \in done
                                THEN multicall(calls, chain) ELSE <<>>
                  sharesData == harvestSharesData(ev, depositorsList, results,
                                                  chain, uuid)
              IN /\ harvestEvent' = harvestEvent \cup {row}
                 /\ uuid' = IF "multicall" \in done
                            THEN uuid + Len(calls) ELSE uuid
                 /\ userHarvestShares' = insertShares(userHarvestShares,
                      InsertedShares(sharesData, HarvestSteps, fault))
                 /\ depositors' = runUpdates(<<depositors>>, sharesData,
                                             order, readsAt, "Harvest")
                 /\ last' = Invocation(ev,
                      IF fault = "none" THEN "ok" ELSE "error", fault,
                      depositorsList, chain, done \cap Reads)

\* ponder.on("AlchemistV2:Donate")
Donate(E) ==
  /\ nEvents < MaxEvents
  /\ nEvents' = nEvents + 1
  /\ UNCHANGED <<yieldTokens, harvestEvent, userHarvestShares>>
  /\ \E ev \in DonateEvents(E) :
       LET row == [id |-> ev.id, blockNumber |-> ev.blockNumber,
                   yieldToken |-> ev.yieldToken,
                   debtTokensBurned |-> ev.amount, network |-> ev.network]
       IN IF insertEventRejects(donateEvent, row)
          THEN /\ last' = Invocation(ev, "error", "insertEvent", <<>>, NoChain, {})
               /\ UNCHANGED <<donateEvent, depositors, userDonateShares, uuid>>
          ELSE
            \E fault \in E.faults \cap (Range(DonateSteps) \cup {"none"}) :
            LET done == Completed(DonateSteps, fault) IN
            \E depositorsList \in
                 (IF "select" \in done
                  THEN Select(depositors, ev.yieldToken, ev.network) ELSE {<<>>}) :
            \E chain \in
                 (IF "insertShares" \in done
                  THEN Chains(E.shares, E.decimals, {0}, Range(Addrs(depositorsList)))
                  ELSE {NoChain}) :
            \E order \in CompletionOrders(Len(depositorsList), fault) :
            \E readsAt \in ReadPoints(Len(depositorsList), order) :
              LET calls      == preparePositionCalls(Addrs(depositorsList),
                                                     ev.yieldToken)
                  results    == IF "insertShares" \in done
                                THEN multicall(calls, chain) ELSE <<>>
                  sharesData == donateSharesData(ev, depositorsList, results,
                                                 chain, uuid)
              IN /\ donateEvent' = donateEvent \cup {row}
                 /\ uuid' = IF "multicall" \in done
                            THEN uuid + Len(calls) ELSE uuid
                 /\ userDonateShares' = insertShares(userDonateShares,
                      InsertedShares(sharesData, DonateSteps, fault))
                 /\ depositors' = runUpdates(<<depositors>>, sharesData,
                                             order, readsAt, "Donate")
                 /\ last' = Invocation(ev,
                      IF fault = "none" THEN "ok" ELSE "error", fault,
                      depositorsList, chain, done \cap Reads)

Next == AddYieldToken(StoreEnv) \/ Deposit(StoreEnv) \/ Harvest(StoreEnv)
          \/ Donate(StoreEnv)

Spec == Init /\ [][Next]_vars

NextCalc == AddYieldToken(CalcEnv) \/ Deposit(CalcEnv) \/ Harvest(CalcEnv)
              \/ Donate(CalcEnv)

SpecCalc == Init /\ [][NextCalc]_vars

NextFault == AddYieldToken(FaultEnv) \/ Deposit(FaultEnv) \/ Harvest(FaultEnv)
               \/ Donate(FaultEnv)

SpecFault == Init /\ [][NextFault]_vars

\* ------------------------------------------------------------ claims ----
\* a handler has just been run (every step of Next delivers one event)
Delivered == nEvents' = nEvents + 1

DepositorKeys(table) == {depositorKey(r) : r \in table}
DepositorAt(table, key) == CHOOSE r \in table : depositorKey(r) = key

\* the depositor rows a Harvest or Donate event is distributed over
Matching(table, ev) ==
  {r \in table : r.depositedYieldToken = ev.yieldToken /\ r.network = ev.network}

ShareKey(share) == <<share.depositor, share.yieldToken, share.network>>

\* the three cumulative columns of every depositor row are the same in the
\* two tables
SameCumulative(t1, t2) ==
  /\ DepositorKeys(t1) = DepositorKeys(t2)
  /\ \A r \in t1 :
       LET q == DepositorAt(t2, depositorKey(r))
       IN /\ q.yieldTokenAmount = r.yieldTokenAmount
          /\ q.totalUnderlyingTokenEarned = r.totalUnderlyingTokenEarned
          /\ q.totalDonationsReceived = r.totalDonationsReceived

\* the number u is num / (den * 10^p), for integers num >= 0 and den > 0
\* below 10^6; numbers whose decimal exponents are further apart than the
\* sizes of num and den allow are different
EqualsRatio(u, num, den, p) ==
  /\ IsFinite(u)
  /\ IF num = 0 THEN u.n = 0
     ELSE /\ u.n # 0
          /\ u.e - p \in -12..12
          /\ u.n * den * Pow(10, Max2(p - u.e, 0))
               = u.d * num * Pow(10, Max2(u.e - p, 0))

\* C1: a Harvest or Donate invocation that fails leaves the whole store as
\* it was before the event, the event's own row included.
C1_FailedHandlerLeavesStoreUnchanged ==
  [][(Delivered /\ last'.event.kind \in {"Harvest", "Donate"}
        /\ last'.outcome = "error") => store' = store]_vars

\* C2: no stored userEarnings, donationReceived or depositor cumulative
\* column ever holds a non-finite value.
C2_StoredValuesAreFinite ==
  /\ \A sh \in userHarvestShares : IsFinite(sh.userEarnings)
  /\ \A sh \in userDonateShares : IsFinite(sh.donationReceived)
  /\ \A r \in depositors : /\ IsFinite(r.totalUnderlyingTokenEarned)
                           /\ IsFinite(r.totalDonationsReceived)

\* C3: a Donate that completes adds, for every depositor row of the event's
\* (yieldToken, network), the donationReceived of the share row it created
\* for that depositor to the row's totalDonationsReceived column.  (Stated
\* for the finite share values, which leaves the case of C2 aside.)
C3_DonateAccumulatesIntoColumn ==
  [][(Delivered /\ last'.event.kind = "Donate" /\ last'.outcome = "ok") =>
       \A r \in Matching(depositors, last'.event) :
         \A sh \in userDonateShares' \ userDonateShares :
           (ShareKey(sh) = depositorKey(r) /\ IsFinite(sh.donationReceived)) =>
             DepositorAt(depositors', depositorKey(r)).totalDonationsReceived
               = JsAdd(r.totalDonationsReceived, sh.donationReceived)]_vars

\* C4: once an AddYieldToken event for (token, network) has been processed
\* the store holds a YieldToken row for that pair.
C4_YieldTokenRowPerTokenAndNetwork ==
  last.event.kind = "AddYieldToken" =>
    \E r \in yieldTokens : /\ r.yieldToken = last.event.yieldToken
                           /\ r.network = last.event.network

\* C5: a Deposit of amount a creates the row of its (depositor, yieldToken,
\* network) with yieldTokenAmount a when there is none and adds a to the
\* stored yieldTokenAmount otherwise, and no other event changes that
\* column: the column is the sum of the amounts deposited for the key.
C5_DepositAddsAmount ==
  [][\A key \in DepositorKeys(depositors) \cup DepositorKeys(depositors') :
       LET had == key \in DepositorKeys(depositors)
           old == IF had THEN DepositorAt(depositors, key).yieldTokenAmount ELSE 0
           ev  == last'.event
       IN /\ Cardinality({r \in depositors' : depositorKey(r) = key}) = 1
          /\ DepositorAt(depositors', key).yieldTokenAmount =
               IF ev.kind = "Deposit" /\ key = <<ev.sender, ev.yieldToken, ev.network>>
               THEN old + ev.amount
               ELSE old
          /\ (ev.kind # "Deposit" \/ key # <<ev.sender, ev.yieldToken, ev.network>>)
               => had]_vars

C5_SecondDepositSeen ==
  /\ last.event.kind = "Deposit"
  /\ \E r \in depositors :
       /\ depositorKey(r) = <<last.event.sender, last.event.yieldToken,
                              last.event.network>>
       /\ r.yieldTokenAmount > last.event.amount
  /\ harvestEvent # {}

\* C6: a Harvest (Donate) event whose log id is already the id of a
\* HarvestEvent (DonateEvent) row fails at the insert of the event row, and
\* that processing changes no table: no share row is created and no
\* depositor column changes.
C6_DuplicateEventRejected ==
  [][(/\ Delivered
      /\ \/ /\ last'.event.kind = "Harvest"
            /\ \E r \in harvestEvent : r.id = last'.event.id
         \/ /\ last'.event.kind = "Donate"
            /\ \E r \in donateEvent : r.id = last'.event.id)
       => /\ last'.outcome = "error"
          /\ last'.failedAt = "insertEvent"
          /\ userHarvestShares' = userHarvestShares
          /\ userDonateShares' = userDonateShares
          /\ harvestEvent' = harvestEvent
          /\ donateEvent' = donateEvent
          /\ SameCumulative(depositors, depositors')]_vars

C6_DuplicateDelivered ==
  /\ last.failedAt = "insertEvent"
  /\ Matching(depositors, last.event) # {}

\* C7: when getYieldTokenParameters, protocolFee or the positions multicall
\* fails, no share row of either kind is stored for the event and no
\* depositor cumulative column changes.
C7_ReadFailurePersistsNoShares ==
  [][(Delivered /\ last'.event.kind \in {"Harvest", "Donate"}
        /\ last'.failedAt \in Reads)
       => /\ userHarvestShares' = userHarvestShares
          /\ userDonateShares' = userDonateShares
          /\ SameCumulative(depositors, depositors')]_vars

C7_MulticallFailedWithDepositors ==
  /\ last.failedAt = "multicall"
  /\ Cardinality(Matching(depositors, last.event)) = 2

\* C8: no event lowers the yieldTokenAmount, totalUnderlyingTokenEarned or
\* totalDonationsReceived of a depositor row.
C8_CumulativeNeverDecreases ==
  [][\A r \in depositors :
       /\ depositorKey(r) \in DepositorKeys(depositors')
       /\ LET q == DepositorAt(depositors', depositorKey(r))
          IN /\ q.yieldTokenAmount >= r.yieldTokenAmount
             /\ ~JsLess(q.totalUnderlyingTokenEarned, r.totalUnderlyingTokenEarned)
             /\ ~JsLess(q.totalDonationsReceived, r.totalDonationsReceived)]_vars

C8_EarnedTwice ==
  \E r \in depositors :
    /\ JsLess(Zero, r.totalUnderlyingTokenEarned)
    /\ Cardinality({sh \in userHarvestShares :
                      /\ ShareKey(sh) = depositorKey(r)
                      /\ JsLess(Zero, sh.userEarnings)}) = 2

\* the share rows written for the last event
LastHarvestShares == {sh \in userHarvestShares : sh.harvestId = last.event.id}
LastDonateShares  == {sh \in userDonateShares : sh.donateId = last.event.id}

\* C9: the share rows of a completed Harvest carry, each for its own
\* depositor, the on-chain position of that depositor, the fetched total,
\* and userEarnings = totalHarvested * (1 - protocolFee/10000) * shares
\* / totalAlchemistShares / 10^decimals (no finite number when the total
\* is 0).
C9_HarvestShareRow ==
  (last.event.kind = "Harvest" /\ last.outcome = "ok") =>
    \A sh \in LastHarvestShares :
      /\ sh.shares = last.chain.positions[sh.depositor]
      /\ sh.totalAlchemistShares = last.chain.totalShares
      /\ IF last.chain.totalShares = 0 THEN ~IsFinite(sh.userEarnings)
         ELSE EqualsRatio(sh.userEarnings,
                last.event.amount * (BPS - last.chain.protocolFee)
                  * last.chain.positions[sh.depositor],
                BPS * last.chain.totalShares,
                last.chain.decimals)

C9_TwoDifferentPositions ==
  /\ last.event.kind = "Harvest" /\ last.outcome = "ok"
  /\ last.chain.protocolFee > 0 /\ last.chain.decimals > 0
  /\ \E s1, s2 \in LastHarvestShares :
       /\ s1.depositor # s2.depositor
       /\ s1.shares = 1 /\ s2.shares = 0
       /\ last.chain.totalShares = 2

\* C10: the share rows of a completed Donate carry donationReceived =
\* debtTokensBurned * shares / totalAlchemistShares / 10^18 with the
\* on-chain position of the row's depositor as shares; the handler does not
\* read protocolFee and the yield token's decimals do not enter.
C10_DonateShareRow ==
  (last.event.kind = "Donate" /\ last.outcome = "ok") =>
    /\ "protocolFee" \notin last.reads
    /\ \A sh \in LastDonateShares :
         /\ sh.shares = last.chain.positions[sh.depositor]
         /\ IF last.chain.totalShares = 0 THEN ~IsFinite(sh.donationReceived)
            ELSE EqualsRatio(sh.donationReceived,
                   last.event.amount * last.chain.positions[sh.depositor],
                   last.chain.totalShares, DebtTokenDecimals)

C10_TwoDifferentPositions ==
  /\ last.event.kind = "Donate" /\ last.outcome = "ok"
  /\ last.chain.decimals > 0
  /\ \E s1, s2 \in LastDonateShares :
       /\ s1.depositor # s2.depositor
       /\ s1.shares = 1 /\ s2.shares = 0
       /\ last.chain.totalShares = 2

\* the share rows an invocation has added for the depositor row r
NewHarvestSharesFor(r) ==
  {sh \in userHarvestShares' \ userHarvestShares :
     ShareKey(sh) = depositorKey(r) /\ sh.harvestId = last'.event.id}
NewDonateSharesFor(r) ==
  {sh \in userDonateShares' \ userDonateShares :
     ShareKey(sh) = depositorKey(r) /\ sh.donateId = last'.event.id}

\* C11: a Harvest that completes leaves, for every depositor row of the
\* event's (yieldToken, network), totalUnderlyingTokenEarned at its previous
\* value plus (JavaScript +) the userEarnings of the one share row the event
\* created for that depositor; a row no harvest has been distributed to
\* holds 0.
C11_HarvestAccumulatesEarnings ==
  [][/\ (Delivered /\ last'.event.kind = "Harvest" /\ last'.outcome = "ok") =>
          \A r \in Matching(depositors, last'.event) :
            /\ Cardinality(NewHarvestSharesFor(r)) = 1
            /\ \A sh \in NewHarvestSharesFor(r) :
                 DepositorAt(depositors', depositorKey(r)).totalUnderlyingTokenEarned
                   = JsAdd(r.totalUnderlyingTokenEarned, sh.userEarnings)
     /\ \A r \in depositors :
          (\A sh \in userHarvestShares : ShareKey(sh) # depositorKey(r))
            => r.totalUnderlyingTokenEarned = Zero]_vars

C11_SecondHarvestAdded ==
  /\ last.event.kind = "Harvest" /\ last.outcome = "ok"
  /\ \E sh \in LastHarvestShares, r \in depositors :
       /\ ShareKey(sh) = depositorKey(r)
       /\ JsLess(Zero, sh.userEarnings)
       /\ JsLess(sh.userEarnings, r.totalUnderlyingTokenEarned)

\* the (JavaScript) sum of the userEarnings of a set of share rows
RECURSIVE SumEarnings(_)
SumEarnings(rows) ==
  IF rows = {} THEN Zero
  ELSE LET sh == CHOOSE x \in rows : TRUE
       IN JsAdd(sh.userEarnings, SumEarnings(rows \ {sh}))

\* the on-chain positions of the depositors listed by the last invocation
\* add up to the yield token's total, which is not 0
PositionsSumToTotal ==
  /\ last.chain.totalShares > 0
  /\ SumOver(last.chain.positions, DOMAIN last.chain.positions)
       = last.chain.totalShares

\* C12: when the positions of the indexed depositors add up to
\* totalAlchemistShares > 0, the userEarnings of the share rows of a
\* completed Harvest add up to totalHarvested * (1 - protocolFee/10000)
\* / 10^decimals (numbers carried exactly).
C12_EarningsSumToNetHarvest ==
  (last.event.kind = "Harvest" /\ last.outcome = "ok" /\ PositionsSumToTotal) =>
    EqualsRatio(SumEarnings(LastHarvestShares),
                last.event.amount * (BPS - last.chain.protocolFee), BPS,
                last.chain.decimals)

C12_TwoPositionsMakeTheTotal ==
  /\ last.event.kind = "Harvest" /\ last.outcome = "ok" /\ PositionsSumToTotal
  /\ last.chain.protocolFee > 0 /\ last.chain.decimals > 0
  /\ Cardinality(LastHarvestShares) = 2
  /\ \A sh \in LastHarvestShares : sh.shares = 1

\* C13: after a Harvest (Donate) that completes, the share rows carrying
\* the event's id are exactly one for each depositor row that matched the
\* event's (yieldToken, network) when the handler ran, and none for any
\* other depositor.
C13_OneShareRowPerMatchingDepositor ==
  [][(Delivered /\ last'.event.kind \in {"Harvest", "Donate"}
        /\ last'.outcome = "ok") =>
       LET rows == IF last'.event.kind = "Harvest"
                   THEN {sh \in userHarvestShares' : sh.harvestId = last'.event.id}
                   ELSE {sh \in userDonateShares' : sh.donateId = last'.event.id}
           matched == Matching(depositors, last'.event)
       IN /\ \A r \in matched :
               Cardinality({sh \in rows : ShareKey(sh) = depositorKey(r)}) = 1
          /\ \A sh \in rows : ShareKey(sh) \in DepositorKeys(matched)]_vars

C13_MatchingAndOtherDepositor ==
  /\ last.event.kind \in {"Harvest", "Donate"} /\ last.outcome = "ok"
  /\ Matching(depositors, last.event) # {}
  /\ \E r \in depositors \ Matching(depositors, last.event) :
       r.depositedYieldToken = last.event.yieldToken
  /\ Cardinality(LastHarvestShares \cup LastDonateShares) = 1

\* C14: every UserHarvestShare row has its HarvestEvent row (id = harvestId,
\* same network) and its Depositor row (same depositor, yieldToken, network),
\* and every UserDonateShare row has its DonateEvent row and its Depositor
\* row.
C14_ShareRowsHaveParents ==
  /\ \A sh \in userHarvestShares :
       /\ \E e \in harvestEvent : e.id = sh.harvestId /\ e.network = sh.network
       /\ ShareKey(sh) \in DepositorKeys(depositors)
  /\ \A sh \in userDonateShares :
       /\ \E e \in donateEvent : e.id = sh.donateId /\ e.network = sh.network
       /\ ShareKey(sh) \in DepositorKeys(depositors)

C14_SharesOfBothKinds ==
  /\ userHarvestShares # {}
  /\ userDonateShares # {}

\* the YieldToken rows of the (token, network) pair of the event ev
YieldTokenRowsOf(table, ev) ==
  {r \in table : r.yieldToken = ev.yieldToken /\ r.network = ev.network}

\* the AddYieldToken event being processed has been processed before: it was
\* the event processed last, or its row is in the store
AddYieldTokenRedelivered ==
  \/ /\ last.event.kind = "AddYieldToken"
     /\ last.event.yieldToken = last'.event.yieldToken
     /\ last.event.network = last'.event.network
  \/ YieldTokenRowsOf(yieldTokens, last'.event) # {}

\* C15: every processing of an AddYieldToken event leaves exactly one
\* YieldToken row for the event's (token, network), and a processing after
\* the first raises no error and leaves the whole store unchanged.
C15_AddYieldTokenIdempotent ==
  [][(Delivered /\ last'.event.kind = "AddYieldToken") =>
       /\ Cardinality(YieldTokenRowsOf(yieldTokens', last'.event)) = 1
       /\ AddYieldTokenRedelivered =>
            (store' = store /\ last'.outcome = "ok")]_vars

\* the depositor row q is the row r with the value of the share row sh
\* added to the cumulative column of the event's kind, and nothing else
\* changed
Incremented(r, q, sh, kind) ==
  /\ q.yieldTokenAmount = r.yieldTokenAmount
  /\ IF kind = "Harvest"
     THEN /\ q.totalUnderlyingTokenEarned
               = JsAdd(r.totalUnderlyingTokenEarned, sh.userEarnings)
          /\ q.totalDonationsReceived = r.totalDonationsReceived
     ELSE /\ q.totalDonationsReceived
               = JsAdd(r.totalDonationsReceived, sh.donationReceived)
          /\ q.totalUnderlyingTokenEarned = r.totalUnderlyingTokenEarned

\* C16: whatever the order in which the per-depositor updates of a Harvest
\* or Donate read and write their rows, an invocation that reports success
\* has updated distinct depositor rows, one per share row, and has left
\* every row with exactly its own increment added: the same store for
\* every interleaving, no increment lost, success only once all are done.
\* (Stated for the finite share values, which leaves the case of C2 aside.)
C16_UpdatesInterleaveSafely ==
  [][(Delivered /\ last'.event.kind \in {"Harvest", "Donate"}
        /\ last'.outcome = "ok") =>
       LET kind == last'.event.kind
           rows == IF kind = "Harvest"
                   THEN {sh \in userHarvestShares' : sh.harvestId = last'.event.id}
                   ELSE {sh \in userDonateShares' : sh.donateId = last'.event.id}
       IN /\ \A s1, s2 \in rows : ShareKey(s1) = ShareKey(s2) => s1 = s2
          /\ DepositorKeys(depositors') = DepositorKeys(depositors)
          /\ \A r \in depositors :
               LET q    == DepositorAt(depositors', depositorKey(r))
                   mine == {sh \in rows : ShareKey(sh) = depositorKey(r)}
               IN IF mine = {} THEN q = r
                  ELSE \A sh \in mine :
                         IsFinite(IF kind = "Harvest" THEN sh.userEarnings
                                  ELSE sh.donationReceived)
                           => Incremented(r, q, sh, kind)]_vars

\* C17: no event of any kind modifies or deletes a HarvestEvent,
\* DonateEvent, UserHarvestShare or UserDonateShare row, and none deletes a
\* Depositor row.
C17_AuditRowsAppendOnly ==
  [][/\ harvestEvent \subseteq harvestEvent'
     /\ donateEvent \subseteq donateEvent'
     /\ userHarvestShares \subseteq userHarvestShares'
     /\ userDonateShares \subseteq userDonateShares'
     /\ DepositorKeys(depositors) \subseteq DepositorKeys(depositors')]_vars

C17_EarlierShareRowKept ==
  /\ last.event.kind = "Harvest" /\ last.outcome = "ok"
  /\ \E new \in LastHarvestShares, old \in userHarvestShares :
       /\ old.harvestId # new.harvestId
       /\ ShareKey(old) = ShareKey(new)

\* C18: a Harvest or Donate is distributed over the depositor rows that
\* exist when it is processed.  The share rows a step adds are rows of the
\* event being processed, which is a new event, for depositor rows already
\* in the store; and a depositor row is created with both cumulative fields
\* 0 and without any share row.  So a depositor created after an event never
\* has a share row of that event.
C18_SharesOnlyForExistingDepositors ==
  [][/\ \A sh \in userHarvestShares' \ userHarvestShares :
          /\ sh.harvestId = last'.event.id
          /\ \A e \in harvestEvent : e.id # sh.harvestId
          /\ ShareKey(sh) \in DepositorKeys(depositors)
     /\ \A sh \in userDonateShares' \ userDonateShares :
          /\ sh.donateId = last'.event.id
          /\ \A e \in donateEvent : e.id # sh.donateId
          /\ ShareKey(sh) \in DepositorKeys(depositors)
     /\ \A q \in depositors' :
          depositorKey(q) \notin DepositorKeys(depositors) =>
            /\ q.totalUnderlyingTokenEarned = Zero
            /\ q.totalDonationsReceived = Zero
            /\ \A sh \in userHarvestShares' \cup userDonateShares' :
                 ShareKey(sh) # depositorKey(q)]_vars

C18_FirstDepositAfterHarvest ==
  /\ last.event.kind = "Deposit"
  /\ \E sh \in userHarvestShares :
       /\ sh.yieldToken = last.event.yieldToken
       /\ sh.network = last.event.network
       /\ sh.depositor # last.event.sender
  /\ \E r \in depositors :
       /\ depositorKey(r) = <<last.event.sender, last.event.yieldToken,
                              last.event.network>>
       /\ r.yieldTokenAmount = last.event.amount

\* C19: a Harvest or Donate for (yieldToken, network), completed or not,
\* leaves every depositor row of another yield token or another network as
\* it is; a Harvest changes no totalDonationsReceived and no DonateEvent or
\* UserDonateShare row, a Donate no totalUnderlyingTokenEarned and no
\* HarvestEvent or UserHarvestShare row.
C19_DistributionFrame ==
  [][(Delivered /\ last'.event.kind \in {"Harvest", "Donate"}) =>
       /\ \A r \in depositors \ Matching(depositors, last'.event) :
            r \in depositors'
       /\ DepositorKeys(depositors') = DepositorKeys(depositors)
       /\ IF last'.event.kind = "Harvest"
          THEN /\ donateEvent' = donateEvent
               /\ userDonateShares' = userDonateShares
               /\ \A r \in depositors :
                    DepositorAt(depositors', depositorKey(r)).totalDonationsReceived
                      = r.totalDonationsReceived
          ELSE /\ harvestEvent' = harvestEvent
               /\ userHarvestShares' = userHarvestShares
               /\ \A r \in depositors :
                    DepositorAt(depositors', depositorKey(r)).totalUnderlyingTokenEarned
                      = r.totalUnderlyingTokenEarned]_vars

C19_SameAddressInAnotherMarket ==
  /\ last.event.kind \in {"Harvest", "Donate"} /\ last.outcome = "ok"
  /\ \E sh \in LastHarvestShares \cup LastDonateShares, r \in depositors :
       /\ r.depositor = sh.depositor
       /\ depositorKey(r) # ShareKey(sh)

\* C20: a Deposit for a (depositor, yieldToken, network) that has a row
\* changes that row's yieldTokenAmount and nothing else: the row keeps its
\* totalUnderlyingTokenEarned and totalDonationsReceived, every other
\* depositor row is unchanged, and so are the other five tables.
C20_DepositFrame ==
  [][(/\ Delivered
      /\ last'.event.kind = "Deposit"
      /\ <<last'.event.sender, last'.event.yieldToken, last'.event.network>>
           \in DepositorKeys(depositors)) =>
       LET key == <<last'.event.sender, last'.event.yieldToken,
                    last'.event.network>>
           r   == DepositorAt(depositors, key)
       IN /\ depositors' = (depositors \ {r}) \cup
               {[r EXCEPT !.yieldTokenAmount = r.yieldTokenAmount
                                                 + last'.event.amount]}
          /\ UNCHANGED <<yieldTokens, harvestEvent, userHarvestShares,
                         donateEvent, userDonateShares>>]_vars

C20_DepositAfterEarnings ==
  /\ last.event.kind = "Deposit"
  /\ \E r \in depositors :
       /\ depositorKey(r) = <<last.event.sender, last.event.yieldToken,
                              last.event.network>>
       /\ r.yieldTokenAmount > last.event.amount
       /\ JsLess(Zero, r.totalUnderlyingTokenEarned)

====
